---- MODULE Spec2Model ----
(***************************************************************************)
(* ReconnectingWebsocket (src/index.ts): one instance, the sockets it      *)
(* creates, and the timers it starts.  Sockets are numbered in the order   *)
(* connect() creates them.  Time is discrete: every pending setTimeout     *)
(* carries the time left until it fires, Tick lets time pass, and a timer  *)
(* fires when nothing is left.  Socket events (open, close) and caller     *)
(* calls happen at any time.                                               *)
(***************************************************************************)
EXTENDS Integers, Sequences, FiniteSets, TLC

\* ---- bounds ----
MaxSockets == 3
\* the sockets of the run of consecutive failures (SpecBackoff)
BackoffSockets == 5

\* JavaScript's Infinity (the default maxRetries): larger than any count.
Infinity == 1000000

\* ---- inputs ----
Sockets == 1..(IF BackoffSockets > MaxSockets THEN BackoffSockets ELSE MaxSockets)
EventTypes == {"message", "close", "error"}
Listeners == {"f", "g"}
\* the options argument of add/removeEventListener: the capture flag
\* (undefined is FALSE)
Options == BOOLEAN
\* the properties a socket has (for key in ws), and the three not forwarded
SocketKeys == {"onerror", "readyState", "send",
               "addEventListener", "removeEventListener", "close"}
Reserved == {"addEventListener", "removeEventListener", "close"}
\* the values of a socket's onerror property: not set, or the caller's handler
Handlers == {"null", "h"}

\* the numeric fields of config after the options are merged in (delays in
\* time units; integral growth factors keep the delays integral)
Configs ==
    [ minReconnectionDelay : {1, 2},
      maxReconnectionDelay : {2, 4},
      reconnectionDelayGrowFactor : {1, 2},
      connectionTimeout : {1, 3},
      maxRetries : {0, 1, 2, Infinity} ]

VARIABLES
    config,             \* const config (shared DEFAULT_OPTIONS object)
    ws,                 \* let ws: the socket connect() created last
    connectingTimeout,  \* let connectingTimeout: handle of the timer connect() started last
    reconnectDelay,     \* let reconnectDelay
    retriesCount,       \* let retriesCount
    shouldRetry,        \* let shouldRetry
    listeners,          \* const listeners: type -> sequence of <<listener, options>>
    readyState,         \* socket -> "NONE" (not created), "CONNECTING", "OPEN", "CLOSING", "CLOSED"
    opened,             \* the sockets that have emitted open
    attached,           \* socket -> type -> sequence of <<listener, capture>> the caller's listeners on it
    timeoutTimers,      \* handle -> time left of the connection-timeout timer, -1 when not pending
    retryTimers,        \* the pending setTimeout(connect, delay): sequence of times left
    errorQueue,         \* the pending setTimeout(..., 0) of emitError, in creation order
    hostdownCount,      \* number of EHOSTDOWN errors emitted so far
    bypass,             \* forwarded property name -> the socket (src) its accessor on the instance reads and writes
    onerror,            \* socket -> the value of its onerror property
    assignedOnerror     \* the value the caller assigned last to instance.onerror

props == << bypass, onerror, assignedOnerror >>

vars == << config, ws, connectingTimeout, reconnectDelay, retriesCount, shouldRetry,
           listeners, readyState, opened, attached, timeoutTimers, retryTimers,
           errorQueue, hostdownCount, bypass, onerror, assignedOnerror >>

Live == {"CONNECTING", "OPEN", "CLOSING"}

\* ---- pure functions ----

\* initReconnectionDelay: min + Math.random() * min, the integral values of [min, 2 min)
initReconnectionDelay(cfg) ==
    cfg.minReconnectionDelay .. (2 * cfg.minReconnectionDelay - 1)

\* an updateReconnectionDelay that forgets the cap
updateWithoutCap(cfg, previousDelay) ==
    previousDelay * cfg.reconnectionDelayGrowFactor

updateReconnectionDelay(cfg, previousDelay) ==
    LET newDelay == previousDelay * cfg.reconnectionDelayGrowFactor
    IN  IF newDelay > cfg.maxReconnectionDelay
        THEN cfg.maxReconnectionDelay
        ELSE newDelay

\* EventTarget.addEventListener on a socket: a listener is attached once per
\* (type, callback, capture)
SocketAddEventListener(seq, listener, options) ==
    IF \E i \in 1..Len(seq) : seq[i] = <<listener, options>>
    THEN seq
    ELSE Append(seq, <<listener, options>>)

\* EventTarget.removeEventListener on a socket: removes the (type, callback, capture) entry
SocketRemoveEventListener(seq, listener, options) ==
    SelectSeq(seq, LAMBDA e : e # <<listener, options>>)

RECURSIVE AttachAll(_, _)
AttachAll(seq, entries) ==
    IF entries = << >> THEN seq
    ELSE AttachAll(SocketAddEventListener(seq, Head(entries)[1], Head(entries)[2]),
                   Tail(entries))

\* a reassignEventListeners that re-attaches only the first listener of each type
reassignFirstOnly(registry) ==
    [type \in EventTypes |->
        IF registry[type] = << >> THEN << >>
        ELSE AttachAll(<< >>, << Head(registry[type]) >>)]

\* reassignEventListeners(ws, listeners), on a socket with no caller listener yet
reassignEventListeners(registry) ==
    [type \in EventTypes |-> AttachAll(<< >>, registry[type])]

\* ws.close() of the socket: a socket that is connecting or open starts
\* closing and emits close later; otherwise nothing happens
SocketClose(rs, s) ==
    IF rs[s] \in {"CONNECTING", "OPEN"} THEN [rs EXCEPT ![s] = "CLOSING"] ELSE rs

\* A closed socket that ws no longer refers to is garbage: nothing can reach
\* it or its listeners again.
Discard(att, rs, cur) ==
    [s \in Sockets |->
        IF rs[s] = "CLOSED" /\ s # cur
        THEN [type \in EventTypes |-> << >>]
        ELSE att[s]]

\* the same for the onerror property of such a socket
DiscardOnerror(oe, rs, cur) ==
    [s \in Sockets |-> IF rs[s] = "CLOSED" /\ s # cur THEN "null" ELSE oe[s]]

\* a connect() that leaves the accessors already defined on the instance as they are
bypassKeepDefined(fwd, src, keys) ==
    [name \in DOMAIN fwd \cup (keys \ Reserved) |->
        IF name \in DOMAIN fwd THEN fwd[name] ELSE src]

\* the loop of lines 94-99: bypassProperty(ws, this, key) for every key of
\* the socket but the reserved ones
bypassProperties(fwd, src, keys) ==
    [name \in DOMAIN fwd \cup (keys \ Reserved) |->
        IF name \in keys \ Reserved THEN src ELSE fwd[name]]

\* a retry budget that is off by one
ExhaustedOffByOne(count, cfg) == count > cfg.maxRetries + 1

\* retriesCount > config.maxRetries
Exhausted(count, cfg) == count > cfg.maxRetries

\* a close handler that never schedules connect()
ScheduleConnectNever(timers, delay) == timers

\* a close handler that schedules connect() twice
ScheduleConnectTwice(timers, delay) == Append(Append(timers, delay), delay)

\* setTimeout(connect, reconnectDelay)
ScheduleConnect(timers, delay) == Append(timers, delay)

\* ---- state after construction (lines 43-48, 56-63, 133) ----
InitWith(configs) ==
    /\ config \in configs
    /\ ws = 1
    /\ connectingTimeout = 1
    /\ reconnectDelay = 0
    /\ retriesCount = 0
    /\ shouldRetry = TRUE
    /\ listeners = [type \in EventTypes |-> << >>]
    /\ readyState = [s \in Sockets |-> IF s = 1 THEN "CONNECTING" ELSE "NONE"]
    /\ opened = {}
    /\ attached = [s \in Sockets |-> [type \in EventTypes |-> << >>]]
    /\ timeoutTimers = [h \in Sockets |-> IF h = 1 THEN config.connectionTimeout ELSE -1]
    /\ retryTimers = << >>
    /\ errorQueue = << >>
    /\ hostdownCount = 0
    /\ bypass = bypassProperties(<< >>, 1, SocketKeys)
    /\ onerror = [s \in Sockets |-> "null"]
    /\ assignedOnerror = "null"

\* ---- actions ----

\* connect(), run by a retry timer that is due; at most limit sockets are created
ConnectWithin(i, limit) ==
    /\ i \in 1..Len(retryTimers)
    /\ retryTimers[i] = 0
    /\ ws < limit
    /\ retryTimers' = [j \in 1..(Len(retryTimers) - 1) |->
                          IF j < i THEN retryTimers[j] ELSE retryTimers[j + 1]]
    /\ ws' = ws + 1
    /\ readyState' = [readyState EXCEPT ![ws + 1] = "CONNECTING"]
    /\ connectingTimeout' = ws + 1
    /\ timeoutTimers' = [timeoutTimers EXCEPT ![ws + 1] = config.connectionTimeout]
    /\ attached' = Discard([attached EXCEPT ![ws + 1] = reassignEventListeners(listeners)],
                            readyState', ws')
    /\ bypass' = bypassProperties(bypass, ws + 1, SocketKeys)
    /\ onerror' = DiscardOnerror(onerror, readyState', ws')
    /\ UNCHANGED << config, reconnectDelay, retriesCount, shouldRetry, listeners,
                    opened, errorQueue, hostdownCount, assignedOnerror >>

Connect(i) == ConnectWithin(i, MaxSockets)

\* a timeout callback that emits the error and leaves the socket alone
ConnectingTimeoutNoClose(h) ==
    /\ timeoutTimers[h] = 0
    /\ timeoutTimers' = [timeoutTimers EXCEPT ![h] = -1]
    /\ errorQueue' = Append(errorQueue, [code |-> "ETIMEDOUT", sock |-> ws])
    /\ UNCHANGED << config, ws, connectingTimeout, reconnectDelay, retriesCount,
                    shouldRetry, listeners, readyState, opened, attached, retryTimers,
                    hostdownCount, props >>

\* the connection-timeout timer with handle h fires
ConnectingTimeout(h) ==
    /\ timeoutTimers[h] = 0
    /\ timeoutTimers' = [timeoutTimers EXCEPT ![h] = -1]
    /\ readyState' = SocketClose(readyState, ws)
    /\ errorQueue' = Append(errorQueue, [code |-> "ETIMEDOUT", sock |-> ws])
    /\ UNCHANGED << config, ws, connectingTimeout, reconnectDelay, retriesCount,
                    shouldRetry, listeners, opened, attached, retryTimers, hostdownCount, props >>

\* an open handler that forgets to reset retriesCount
OnOpenKeepsCount(s, r) ==
    /\ readyState[s] = "CONNECTING"
    /\ r \in initReconnectionDelay(config)
    /\ readyState' = [readyState EXCEPT ![s] = "OPEN"]
    /\ opened' = opened \cup {s}
    /\ timeoutTimers' = [timeoutTimers EXCEPT ![connectingTimeout] = -1]
    /\ reconnectDelay' = r
    /\ UNCHANGED << config, ws, connectingTimeout, retriesCount, shouldRetry,
                    listeners, attached, retryTimers, errorQueue, hostdownCount,
                    props >>

\* socket s emits open: the handler of lines 101-107
OnOpen(s, r) ==
    /\ readyState[s] = "CONNECTING"
    /\ r \in initReconnectionDelay(config)
    /\ readyState' = [readyState EXCEPT ![s] = "OPEN"]
    /\ opened' = opened \cup {s}
    /\ timeoutTimers' = [timeoutTimers EXCEPT ![connectingTimeout] = -1]
    /\ reconnectDelay' = r
    /\ retriesCount' = 0
    /\ UNCHANGED << config, ws, connectingTimeout, shouldRetry, listeners, attached,
                    retryTimers, errorQueue, hostdownCount, props >>

\* socket s emits close: the handler of lines 109-127, then the caller's
\* close listeners on s, one of which may call close() (reenter)
OnClose(s, r, reenter) ==
    /\ readyState[s] \in Live
    /\ r \in initReconnectionDelay(config)
    /\ reenter => attached[s]["close"] # << >>
    /\ retriesCount' = retriesCount + 1
    /\ IF Exhausted(retriesCount + 1, config)
       THEN /\ errorQueue' = Append(errorQueue, [code |-> "EHOSTDOWN", sock |-> s])
            /\ hostdownCount' = hostdownCount + 1
            /\ UNCHANGED << reconnectDelay, retryTimers >>
       ELSE /\ reconnectDelay' = IF reconnectDelay = 0
                                 THEN r
                                 ELSE updateReconnectionDelay(config, reconnectDelay)
            /\ retryTimers' = IF shouldRetry
                              THEN ScheduleConnect(retryTimers, reconnectDelay')
                              ELSE retryTimers
            /\ UNCHANGED << errorQueue, hostdownCount >>
    /\ shouldRetry' = IF reenter THEN FALSE ELSE shouldRetry
    /\ readyState' = IF reenter
                     THEN SocketClose([readyState EXCEPT ![s] = "CLOSED"], ws)
                     ELSE [readyState EXCEPT ![s] = "CLOSED"]
    /\ attached' = Discard(attached, readyState', ws)
    /\ onerror' = DiscardOnerror(onerror, readyState', ws)
    /\ UNCHANGED << config, ws, connectingTimeout, listeners, opened, timeoutTimers,
                    bypass, assignedOnerror >>

\* the deferred callback of emitError runs: every listener of
\* listeners.error is called, then ws.onerror when it is set
DispatchError ==
    /\ errorQueue # << >>
    /\ errorQueue' = Tail(errorQueue)
    /\ UNCHANGED << config, ws, connectingTimeout, reconnectDelay, retriesCount,
                    shouldRetry, listeners, readyState, opened, attached,
                    timeoutTimers, retryTimers, hostdownCount, props >>

\* this.close()
Close ==
    /\ shouldRetry' = FALSE
    /\ readyState' = SocketClose(readyState, ws)
    /\ UNCHANGED << config, ws, connectingTimeout, reconnectDelay, retriesCount,
                    listeners, opened, attached, timeoutTimers, retryTimers,
                    errorQueue, hostdownCount, props >>

\* this.addEventListener(type, listener, options)
AddEventListener(type, listener, options) ==
    /\ listeners' = [listeners EXCEPT ![type] =
          IF \E i \in 1..Len(@) : @[i][1] = listener
          THEN @
          ELSE Append(@, <<listener, options>>)]
    /\ attached' = [attached EXCEPT ![ws][type] =
                        SocketAddEventListener(@, listener, options)]
    /\ UNCHANGED << config, ws, connectingTimeout, reconnectDelay, retriesCount,
                    shouldRetry, readyState, opened, timeoutTimers, retryTimers,
                    errorQueue, hostdownCount, props >>

\* this.removeEventListener(type, listener, options)
RemoveEventListener(type, listener, options) ==
    /\ listeners' = [listeners EXCEPT ![type] =
                        SelectSeq(@, LAMBDA e : e[1] # listener)]
    /\ attached' = [attached EXCEPT ![ws][type] =
                        SocketRemoveEventListener(@, listener, options)]
    /\ UNCHANGED << config, ws, connectingTimeout, reconnectDelay, retriesCount,
                    shouldRetry, readyState, opened, timeoutTimers, retryTimers,
                    errorQueue, hostdownCount, props >>

\* instance.onerror = value: the setter of the accessor (line 14) writes the
\* property of the socket the accessor was defined for
SetOnerror(value) ==
    /\ onerror' = [onerror EXCEPT ![bypass["onerror"]] = value]
    /\ assignedOnerror' = value
    /\ UNCHANGED << config, ws, connectingTimeout, reconnectDelay, retriesCount,
                    shouldRetry, listeners, readyState, opened, attached,
                    timeoutTimers, retryTimers, errorQueue, hostdownCount, bypass >>

\* the merge of lines 56-59: every key of config that options has is overwritten
MergeOptions(cfg, options) ==
    [key \in DOMAIN cfg |-> IF key \in DOMAIN options THEN options[key] ELSE cfg[key]]

\* the options other constructions are called with
OtherOptions ==
    { [maxRetries |-> 0],
      [minReconnectionDelay |-> 2, maxReconnectionDelay |-> 4],
      [connectionTimeout |-> 3, reconnectionDelayGrowFactor |-> 2] }

\* new ReconnectingWebsocket(url, protocols, options) for another instance:
\* its config is the DEFAULT_OPTIONS object this instance's config is too, and
\* the merge writes into it (before the constructor check of line 61)
ConstructOther(options) ==
    /\ config' = MergeOptions(config, options)
    /\ UNCHANGED << ws, connectingTimeout, reconnectDelay, retriesCount,
                    shouldRetry, listeners, readyState, opened, attached,
                    timeoutTimers, retryTimers, errorQueue, hostdownCount, props >>

\* the times left of all pending timers
PendingTimes ==
    {timeoutTimers[h] : h \in {x \in Sockets : timeoutTimers[x] >= 0}}
        \cup {retryTimers[i] : i \in 1..Len(retryTimers)}
        \cup {0 : i \in 1..Len(errorQueue)}

\* d units of time pass: no pending timer is due earlier
Tick(d) ==
    /\ PendingTimes # {}
    /\ \A t \in PendingTimes : t >= d
    /\ timeoutTimers' = [h \in Sockets |->
                            IF timeoutTimers[h] >= 0 THEN timeoutTimers[h] - d ELSE -1]
    /\ retryTimers' = [i \in 1..Len(retryTimers) |-> retryTimers[i] - d]
    /\ UNCHANGED << config, ws, connectingTimeout, reconnectDelay, retriesCount,
                    shouldRetry, listeners, readyState, opened, attached,
                    errorQueue, hostdownCount, props >>

\* one step of the program; the caller's listener calls draw their arguments
\* from the given sets
NextWith(types, fns, opts) ==
    \/ \E i \in 1..MaxSockets : Connect(i)
    \/ \E h \in Sockets : ConnectingTimeout(h)
    \/ \E s \in Sockets, r \in initReconnectionDelay(config) : OnOpen(s, r)
    \/ \E s \in Sockets, r \in initReconnectionDelay(config), reenter \in BOOLEAN :
           OnClose(s, r, reenter)
    \/ DispatchError
    \/ Close
    \/ \E type \in types, listener \in fns, options \in opts :
           AddEventListener(type, listener, options)
    \/ \E type \in types, listener \in fns, options \in opts :
           RemoveEventListener(type, listener, options)
    \/ \E t \in PendingTimes : \E d \in 1..t : Tick(d)

\* every configuration, one close listener and one error listener
Init == InitWith(Configs)
Next ==
    \/ NextWith({"close", "error"}, {"f"}, {FALSE})
    \/ \E value \in Handlers : SetOnerror(value)
Spec == Init /\ [][Next]_vars

\* one configuration, every listener call
ListenerConfig ==
    [ minReconnectionDelay |-> 1, maxReconnectionDelay |-> 2,
      reconnectionDelayGrowFactor |-> 1, connectionTimeout |-> 1,
      maxRetries |-> Infinity ]
InitListeners == InitWith({ListenerConfig})
NextListeners == NextWith({"message"}, Listeners, Options)
SpecListeners == InitListeners /\ [][NextListeners]_vars

\* one initial configuration, and other instances constructed at any time
InitShared == InitWith({ListenerConfig})
NextShared ==
    \/ NextWith({"close"}, {"f"}, {FALSE})
    \/ \E options \in OtherOptions : ConstructOther(options)
SpecShared == InitShared /\ [][NextShared]_vars

\* the time to the next pending timer
MinPending == CHOOSE t \in PendingTimes : \A u \in PendingTimes : t <= u

\* time passes until the next timer is due
TickToNext ==
    /\ PendingTimes # {}
    /\ MinPending > 0
    /\ Tick(MinPending)

\* the backoff scenario: delays 100 to 1000, factor 2, and sockets that fail
\* without opening (the random draw is read by the close handler only while
\* reconnectDelay is 0)
BackoffConfig ==
    [ minReconnectionDelay |-> 100, maxReconnectionDelay |-> 1000,
      reconnectionDelayGrowFactor |-> 2, connectionTimeout |-> 4000,
      maxRetries |-> Infinity ]
InitBackoff == InitWith({BackoffConfig})
NextBackoff ==
    \/ \E i \in Sockets : ConnectWithin(i, BackoffSockets)
    \/ \E h \in Sockets : ConnectingTimeout(h)
    \/ \E s \in Sockets :
          \E r \in (IF reconnectDelay = 0 THEN initReconnectionDelay(config)
                                         ELSE {config.minReconnectionDelay}) :
              OnClose(s, r, FALSE)
    \/ DispatchError
    \/ Close
    \/ TickToNext
SpecBackoff == InitBackoff /\ [][NextBackoff]_vars

\* timers eventually fire: time passes, and a timer that is due runs
LiveConfigs ==
    [ minReconnectionDelay : {1},
      maxReconnectionDelay : {2},
      reconnectionDelayGrowFactor : {2},
      connectionTimeout : {1, 3},
      maxRetries : {1, Infinity} ]
InitFair == InitWith(LiveConfigs)
NextFair == NextWith({"error"}, {"f"}, {FALSE})
TimersFire ==
    /\ WF_vars(\E t \in PendingTimes : \E d \in 1..t : Tick(d))
    /\ WF_vars(\E i \in 1..MaxSockets : Connect(i))
    /\ WF_vars(\E h \in Sockets : ConnectingTimeout(h))
    /\ WF_vars(DispatchError)
SpecFair == InitFair /\ [][NextFair]_vars /\ TimersFire

\* ---- properties ----

\* the listeners of a sequence of <<listener, options>>, in order
Names(seq) == [i \in 1..Len(seq) |-> seq[i][1]]
\* how many entries of seq are for the listener
Count(seq, listener) == Cardinality({i \in 1..Len(seq) : seq[i][1] = listener})
\* a retry timer is started in this step
Scheduled == Len(retryTimers') > Len(retryTimers)
ScheduledDelay == retryTimers'[Len(retryTimers')]

\* C1: once the caller has called close() (shouldRetry is false), connect()
\* never runs again: no new socket is created.
C1_CloseIsTerminal == [][~shouldRetry => ws' = ws]_vars

\* C2: when a close makes retriesCount exceed maxRetries, EHOSTDOWN is
\* emitted, for the only time, and no connect() is pending; from then on no
\* further EHOSTDOWN is emitted, no connect() is scheduled and none runs.
C2_ExhaustionIsAbsorbing ==
    [][ /\ (retriesCount' = retriesCount + 1 /\ retriesCount' > config.maxRetries)
            => (hostdownCount = 0 /\ hostdownCount' = 1 /\ retryTimers' = << >>)
        /\ hostdownCount' > hostdownCount
            => (retriesCount' = retriesCount + 1 /\ retriesCount' > config.maxRetries)
        /\ hostdownCount >= 1
            => (hostdownCount' = 1 /\ ws' = ws /\ retryTimers' = << >>) ]_vars

\* C2 witness: maxRetries = 2, three closes, the error dispatched, close()
\* called and every timer gone.
C2_Witness ==
    /\ config.maxRetries = 2
    /\ retriesCount = 3
    /\ hostdownCount = 1
    /\ ~shouldRetry
    /\ PendingTimes = {}

\* C3: a connection-timeout timer that fires (and closes ws, emitting
\* ETIMEDOUT) was started by the attempt ws belongs to, and that socket has
\* not opened.
C3_TimeoutOnlyOwnAttempt ==
    [][ \A h \in Sockets :
          (timeoutTimers[h] = 0 /\ timeoutTimers'[h] = -1
             /\ Len(errorQueue') > Len(errorQueue))
          => (ws = h /\ h \notin opened) ]_vars

\* C4: when connect() creates a socket, the caller's listeners attached to
\* it are, for each type, the listeners of the registry, in registration order.
C4_ListenersSurvive ==
    [][ ws' # ws =>
          \A type \in EventTypes :
              Names(attached'[ws'][type]) = Names(listeners[type]) ]_vars

\* C4 witness: the third socket carries two listeners, g registered before f.
C4_Witness ==
    /\ ws = 3
    /\ readyState[ws] = "CONNECTING"
    /\ Names(attached[ws]["message"]) = << "g", "f" >>
    /\ Names(listeners["message"]) = << "g", "f" >>

\* C5: whatever the calls, each (type, listener) pair is once in the registry
\* and once on the current socket.
C5_RegistrationIdempotent ==
    \A type \in EventTypes, listener \in Listeners :
        /\ Count(listeners[type], listener) <= 1
        /\ Count(attached[ws][type], listener) <= 1

\* C6: when removeEventListener takes a listener out of the registry, the
\* listener is no longer attached to the current socket.
C6_RemovalImmediate ==
    [][ \A type \in EventTypes, listener \in Listeners :
          (Count(listeners[type], listener) > 0 /\ Count(listeners'[type], listener) = 0)
          => Count(attached'[ws'][type], listener) = 0 ]_vars

\* C7: the delay of the reconnect scheduled when a socket that had opened
\* closes lies in [minReconnectionDelay, 2 * minReconnectionDelay).
C7_OpenRestartsBackoff ==
    [][ \A s \in opened :
          (readyState[s] \in Live /\ readyState'[s] = "CLOSED" /\ Scheduled)
          => ScheduledDelay \in initReconnectionDelay(config) ]_vars

\* C8: every delay a reconnect is scheduled with is at most
\* maxReconnectionDelay, and it is not smaller than the delay of the
\* previous failure of the same run of failures.
C8_DelayBounded ==
    [][ Scheduled =>
          /\ ScheduledDelay <= config.maxReconnectionDelay
          /\ ScheduledDelay >= reconnectDelay ]_vars

\* C9: when a synthetic error is dispatched to the caller's error listeners,
\* the close listeners of the failed socket have already seen its close event.
C9_CloseBeforeError ==
    [][ (errorQueue # << >> /\ errorQueue' = Tail(errorQueue)
           /\ listeners["error"] # << >>
           /\ attached[Head(errorQueue).sock]["close"] # << >>)
        => readyState[Head(errorQueue).sock] = "CLOSED" ]_vars

\* C10: at most one socket has been created and has not emitted close.
C10_AtMostOneLive ==
    Cardinality({s \in Sockets : readyState[s] \in Live}) <= 1

\* C10 witness: the third socket is live after close() was called, while a
\* connection-timeout timer of an earlier attempt is still pending.
C10_Witness ==
    /\ ws = 3
    /\ readyState[ws] \in Live
    /\ ~shouldRetry
    /\ \E h \in Sockets : h < ws /\ timeoutTimers[h] >= 0

\* C11: every forwarded property name (the keys of a socket but the three
\* reserved ones) reads and writes the socket ws refers to.
C11_PassthroughNotStale ==
    /\ DOMAIN bypass = SocketKeys \ Reserved
    /\ \A name \in DOMAIN bypass : bypass[name] = ws

\* C11 witness: after two reconnects a write through the instance has
\* reached the third socket, which is open.
C11_Witness ==
    /\ ws = 3
    /\ readyState[ws] = "OPEN"
    /\ bypass["onerror"] = 3
    /\ onerror[3] = "h"

\* C12: whenever a synthetic error is dispatched while the handler the caller
\* assigned to instance.onerror is set, the handler is called (ws.onerror is
\* that handler).
C12_OnerrorReceivesEveryError ==
    [][ (errorQueue # << >> /\ errorQueue' = Tail(errorQueue)
           /\ assignedOnerror = "h")
        => onerror[ws] = "h" ]_vars

\* C13: the configuration of the instance does not change after its
\* construction, whatever other instances are constructed.
C13_ConfigPerInstance == [][config' = config]_vars

\* C14: once the caller has called close() (shouldRetry is false), no
\* callback hands a synthetic error to emitError.
C14_InertAfterClose ==
    [][~shouldRetry => Len(errorQueue') <= Len(errorQueue)]_vars

Min(a, b) == IF a < b THEN a ELSE b
RECURSIVE Pow2(_)
Pow2(k) == IF k = 0 THEN 1 ELSE 2 * Pow2(k - 1)
\* the k-th delay of a run of failures that starts with delay d1: d1 doubled
\* k - 1 times, capped at 1000
DelayOfRun(d1, k) == Min(Pow2(k - 1) * d1, 1000)
\* the k-th delay as the scenario of the specification states it: the
\* fourth and the fifth are 1000
DelayAsStated(d1, k) == IF k >= 4 THEN 1000 ELSE DelayOfRun(d1, k)

ClosesSinceOpen ==
    Cardinality({s \in Sockets : readyState[s] = "CLOSED" /\ \A o \in opened : s >= o})

\* C16: an open event sets retriesCount to 0, a close event adds 1 to it,
\* nothing else changes it, and it is the number of close events since the
\* last open (since construction when no socket has opened).
C16_RetriesCountBookkeeping ==
    [][ LET openNow == \E s \in Sockets :
                          readyState[s] = "CONNECTING" /\ readyState'[s] = "OPEN"
            closeNow == \E s \in Sockets :
                          readyState[s] \in Live /\ readyState'[s] = "CLOSED"
        IN  /\ openNow => retriesCount' = 0
            /\ closeNow => retriesCount' = retriesCount + 1
            /\ (~openNow /\ ~closeNow) => retriesCount' = retriesCount
            /\ retriesCount' = ClosesSinceOpen' ]_vars

\* C16 witness: socket 1 opened, then three closes, the last one after
\* close() was called and beyond the retry budget of 2.
C16_Witness ==
    /\ opened = {1}
    /\ config.maxRetries = 2
    /\ retriesCount = 3
    /\ hostdownCount = 1
    /\ ~shouldRetry

\* no ETIMEDOUT error is waiting to be dispatched
NoTimeoutErrorPending ==
    \A i \in 1..Len(errorQueue) : errorQueue[i].code # "ETIMEDOUT"

\* C17: a socket that is connecting with its timeout timer pending either
\* emits open or close, or the timer fires: the socket has been asked to
\* close and the ETIMEDOUT error has been dispatched.
C17_TimeoutLiveness ==
    \A s \in 1..MaxSockets :
        (readyState[s] = "CONNECTING" /\ timeoutTimers[s] >= 0)
        ~> \/ s \in opened
           \/ readyState[s] = "CLOSED"
           \/ /\ readyState[s] = "CLOSING"
              /\ timeoutTimers[s] = -1
              /\ NoTimeoutErrorPending

\* C17 witness: the first socket never opened, its timer fired, it is
\* closing, and the error went to the registered error listener.
C17_Witness ==
    /\ ws = 1
    /\ shouldRetry
    /\ opened = {}
    /\ readyState[1] = "CLOSING"
    /\ timeoutTimers[1] = -1
    /\ errorQueue = << >>
    /\ listeners["error"] # << >>

\* C18: after socket k emitted close within the retry budget while close()
\* had not been called (shouldRetry still holds, or the retry is pending), a
\* later socket is created.
C18_ReconnectLiveness ==
    \A k \in 1..(MaxSockets - 1) :
        (/\ ws = k
         /\ readyState[k] = "CLOSED"
         /\ retriesCount <= config.maxRetries
         /\ (shouldRetry \/ retryTimers # << >>))
        ~> ws > k

\* C18 witness: with unbounded maxRetries two sockets failed and the third
\* attempt is under way.
C18_Witness ==
    /\ config.maxRetries = Infinity
    /\ shouldRetry
    /\ opened = {}
    /\ retriesCount = 2
    /\ ws = 3
    /\ readyState[3] = "CONNECTING"

\* the listeners a list of registrations holds
NameSet(seq) == {seq[i][1] : i \in 1..Len(seq)}

\* C19: for every type the listeners attached to the current socket are
\* the listeners held in the registry.
C19_RegistryInStep ==
    \A type \in EventTypes :
        NameSet(attached[ws][type]) = NameSet(listeners[type])

\* C20: at most one retry timer is pending, and one is pending only while
\* the current socket has emitted close; a close starts at most one.
C20_AtMostOneReconnectPending ==
    /\ Len(retryTimers) <= 1
    /\ retryTimers # << >> => readyState[ws] = "CLOSED"

\* C20 witness: the second socket has closed and the connect() that will
\* create the third is due.
C20_Witness ==
    /\ ws = 2
    /\ readyState[2] = "CLOSED"
    /\ shouldRetry
    /\ retryTimers = << 0 >>
    /\ retriesCount = 2

====
